---------------------------- MODULE Spec2Model ----------------------------
(***************************************************************************)
(* A model of suijin (src/suijin): elevation.read, hydro.Cell, hydro.Grid  *)
(* and hydro.Direction, with the semantics of Python 2 and numpy that the  *)
(* source is written for.                                                  *)
(*                                                                         *)
(* Numbers: every elevation, header value and direction code of the model  *)
(* is a float with an integral value, written as a TLA+ integer.  Text:    *)
(* a file is a sequence of lines, a line the sequence of its non-empty     *)
(* fields after split(' '), a field a sequence of one-character strings    *)
(* (a header key is a field of one symbol).                                *)
(***************************************************************************)
EXTENDS Integers, Sequences, FiniteSets, TLC

VARIABLES
    pc,             \* position in Direction(input).run(output), or in the Grid / resolve drivers
    raster,         \* the raster file at `input`
    dataset,        \* elevation.read: what gdal.Open returned ("None" or "Dataset")
    tmp,            \* the NamedTemporaryFile of _to_ascii_grid: [state, text]
    loaded,         \* elevation.read: the array numpy.loadtxt returned
    input_data,     \* Direction.input_data: the Elevation tuple
    grid,           \* the Grid of run / of the Grid driver: [elevation, data]
    row, col,       \* Direction.run: loop indices
    direction_row,  \* Direction.run: the row being built
    output,         \* the file at the output path: [state, text]
    calls,          \* history: one record per add_row call, in call order
    renders,        \* history: number of calls of Grid.render
    result          \* history: what the last driver step computed

vars == <<pc, raster, dataset, tmp, loaded, input_data, grid, row, col,
          direction_row, output, calls, renders, result>>

-----------------------------------------------------------------------------
(* Bounds of the model *)

\* a surface of the Direction specification has at most MaxCells cells
MaxCells == 9
\* number of distinct valid elevation levels of the resolve driver
MaxLevel == 3
\* longest row passed to add_row by the Grid driver
MaxWidth == 2
\* most add_row calls of the Grid driver
MaxCalls == 3

(* Program constants *)

\* elevation.header_size
header_size == 6
\* Grid.nodata(): the fixed output sentinel
NODATA == -9999

\* elevations of the surfaces of the Direction specification
Elevs == {5, 10}
\* their NODATA_value: one no cell holds, and one some cells hold
NoDataValues == {NODATA, 10}

-----------------------------------------------------------------------------
(* Python sequences *)

\* seq[i] of Python: 0-based, a negative index counts from the end
PyInRange(s, i) == i >= -Len(s) /\ i < Len(s)
PyGet(s, i) == IF i >= 0 THEN s[i + 1] ELSE s[Len(s) + i + 1]

-----------------------------------------------------------------------------
(* Text: str(), format() and float() *)

DigitChars == <<"0", "1", "2", "3", "4", "5", "6", "7", "8", "9">>

RECURSIVE Digits(_)
Digits(n) == IF n < 10 THEN <<DigitChars[n + 1]>>
             ELSE Digits(n \div 10) \o <<DigitChars[(n % 10) + 1]>>

\* '{}'.format(int(v))
FormatInt(n) == IF n < 0 THEN <<"-">> \o Digits(-n) ELSE Digits(n)

\* str(x) / '{}'.format(x) of a float with an integral value: "3.0"
FormatFloat(n) == FormatInt(n) \o <<".", "0">>

DigitValue(c) == CHOOSE d \in 0..9 : DigitChars[d + 1] = c
IsDigit(c) == \E d \in 0..9 : DigitChars[d + 1] = c

RECURSIVE AllDigits(_)
AllDigits(s) == s = <<>> \/ (IsDigit(Head(s)) /\ AllDigits(Tail(s)))

RECURSIVE AllZeros(_)
AllZeros(s) == s = <<>> \/ (Head(s) = "0" /\ AllZeros(Tail(s)))

RECURSIVE DigitsValue(_)
DigitsValue(s) == IF s = <<>> THEN 0
                  ELSE 10 * DigitsValue(SubSeq(s, 1, Len(s) - 1)) + DigitValue(s[Len(s)])

DotAt(s) == IF \E i \in 1..Len(s) : s[i] = "."
            THEN CHOOSE i \in 1..Len(s) : s[i] = "." /\ \A j \in 1..(i - 1) : s[j] # "."
            ELSE Len(s) + 1

Unsigned(s) == IF s # <<>> /\ Head(s) = "-" THEN Tail(s) ELSE s
IntPart(s) == SubSeq(Unsigned(s), 1, DotAt(Unsigned(s)) - 1)
FracPart(s) == SubSeq(Unsigned(s), DotAt(Unsigned(s)) + 1, Len(Unsigned(s)))

\* float(field) succeeds; the model holds integral values only
IsNumeric(s) == /\ IntPart(s) # <<>>
                /\ AllDigits(IntPart(s))
                /\ AllZeros(FracPart(s))

\* float(field)
ParseFloat(s) == IF s # <<>> /\ Head(s) = "-" THEN 0 - DigitsValue(IntPart(s))
                 ELSE DigitsValue(IntPart(s))

-----------------------------------------------------------------------------
(* elevation.py *)

Key(k) == <<k>>

\* the rows of an integer raster as lines of fields
IntLines(rows) ==
    [i \in 1..Len(rows) |-> [j \in 1..Len(rows[i]) |-> FormatInt(rows[i][j])]]

\* the rows of a float array as lines of fields: ' '.join(str(n) for n in row)
FloatLines(rows) ==
    [i \in 1..Len(rows) |-> [j \in 1..Len(rows[i]) |-> FormatFloat(rows[i][j])]]

\* ascii_driver.CreateCopy(tmpfile.name, dataset): the AAIGrid text of a raster
AAIGridText(r) ==
    << <<Key("ncols"), FormatInt(r.ncols)>>,
       <<Key("nrows"), FormatInt(r.nrows)>>,
       <<Key("xllcorner"), FormatFloat(r.xllcorner)>>,
       <<Key("yllcorner"), FormatFloat(r.yllcorner)>>,
       <<Key("cellsize"), FormatFloat(r.cellsize)>>,
       <<Key("NODATA_value"), FormatInt(r.nodata_value)>> >>
    \o IntLines(r.data)

\* the lines numpy.loadtxt reads with skiprows=header_size
Body(text) == SubSeq(text, header_size + 1, Len(text))

\* numpy.loadtxt raises ValueError: a field that is no number, or a ragged matrix
loadtxt_raises(text) ==
    \/ \E i \in 1..Len(Body(text)) : \E j \in 1..Len(Body(text)[i]) :
          ~IsNumeric(Body(text)[i][j])
    \/ \E i \in 1..Len(Body(text)) : Len(Body(text)[i]) # Len(Body(text)[1])

\* the matrix of the body, every field through float()
Matrix(text) ==
    [i \in 1..Len(Body(text)) |->
        [j \in 1..Len(Body(text)[i]) |-> ParseFloat(Body(text)[i][j])]]

\* numpy.loadtxt without ndmin squeezes the axes of length one: a file of one row
\* or one column loads as a 1-d array, a file of one value as a 0-d array.
\* a: the values, as rows; ndim: the number of axes left
Squeezed(a) ==
    [a |-> a,
     ndim |-> IF Len(a) = 0 THEN 1
              ELSE IF Len(a) = 1 /\ Len(a[1]) = 1 THEN 0
              ELSE IF Len(a) = 1 \/ Len(a[1]) = 1 THEN 1
              ELSE 2]

loadtxt(text) == Squeezed(Matrix(text))

\* linecache.getline(path, n): '' when the file has no line n
GetLine(text, n) == IF n <= Len(text) THEN text[n] ELSE <<>>

\* header.split(' ')[-1].strip(): the last field, '' of an empty line
LastField(line) == IF line = <<>> THEN <<>> ELSE line[Len(line)]

\* float() raises ValueError on one of the six header lines
parse_headers_raises(text) ==
    \E n \in 1..header_size : ~IsNumeric(LastField(GetLine(text, n)))

\* _parse_headers: [clean(header) for header in lines]
parse_headers(text) ==
    [n \in 1..header_size |-> ParseFloat(LastField(GetLine(text, n)))]

\* Elevation(ncols, nrows, xllcorner, yllcorner, cellsize, nodata_value, data)
Elevation(h, data) ==
    [ncols |-> h[1], nrows |-> h[2], xllcorner |-> h[3], yllcorner |-> h[4],
     cellsize |-> h[5], nodata_value |-> h[6], data |-> data]

\* no Elevation yet
NoElevation == Elevation(<<0, 0, 0, 0, 0, 0>>, [a |-> <<>>, ndim |-> 1])

-----------------------------------------------------------------------------
(* hydro.py: Cell *)

Cell(x, y, value) == [x |-> x, y |-> y, value |-> value]

\* data[x][y] raises IndexError: an index out of range, or an index into a scalar
IndexRaises(data, x, y) ==
    \/ data.ndim < 2
    \/ ~PyInRange(data.a, x)
    \/ ~PyInRange(PyGet(data.a, x), y)

\* data[x][y]
Index(data, x, y) == PyGet(PyGet(data.a, x), y)

\* Cell.is_valid reaches data[x][y] and it raises
is_valid_raises(cell, elevation) ==
    /\ cell.x >= 0
    /\ cell.y >= 0
    /\ cell.x < elevation.nrows
    /\ cell.y < elevation.ncols
    /\ IndexRaises(elevation.data, cell.x, cell.y)

\* a plausible slip: the lower bound of the row is not tested
is_valid_no_lower_bound(cell, elevation) ==
    /\ cell.y >= 0
    /\ cell.x < elevation.nrows
    /\ cell.y < elevation.ncols
    /\ cell.x >= -Len(elevation.data.a)
    /\ Index(elevation.data, cell.x, cell.y) # elevation.nodata_value

\* Cell.is_valid
is_valid(cell, elevation) ==
    /\ cell.x >= 0
    /\ cell.y >= 0
    /\ cell.x < elevation.nrows
    /\ cell.y < elevation.ncols
    /\ Index(elevation.data, cell.x, cell.y) # elevation.nodata_value

-----------------------------------------------------------------------------
(* hydro.py: Grid *)

\* Grid.__init__: data = np.array([[]], ndmin=2), of shape (1, 0)
Grid(elevation) == [elevation |-> elevation, data |-> << <<>> >>]

\* a slip: the input's own NODATA_value
nodata_of_input(g) == g.elevation.nodata_value

\* a slip: zero as the sentinel
nodata_zero(g) == 0

\* Grid.nodata
nodata(g) == NODATA

\* self.data.any(): some element is not zero
DataAny(data) == \E i \in 1..Len(data) : \E j \in 1..Len(data[i]) : data[i][j] # 0

\* the shape of a 2-d array
Shape0(data) == Len(data)
Shape1(data) == Len(data[1])
Size(data) == Shape0(data) * Shape1(data)

\* the branch add_row takes: "axis0" appends a row, "axis1" extends the only row
add_row_branch(g) == IF DataAny(g.data) THEN "axis0" ELSE "axis1"

\* np.append raises ValueError: the dimensions off the concatenation axis differ
add_row_raises(g, r) ==
    IF add_row_branch(g) = "axis0" THEN Shape1(g.data) # Len(r)
    ELSE Shape0(g.data) # 1

\* a slip: every call concatenates along axis 1
add_row_always_axis1(g, r) == [g EXCEPT !.data = <<g.data[1] \o r>>]

\* Grid.add_row, when it does not raise
add_row(g, r) ==
    IF add_row_branch(g) = "axis0"
    THEN [g EXCEPT !.data = Append(g.data, r)]
    ELSE [g EXCEPT !.data = <<g.data[1] \o r>>]

\* Grid.render: the text written to the path
render(g) ==
    << <<Key("ncols"), FormatInt(g.elevation.ncols)>>,
       <<Key("nrows"), FormatInt(g.elevation.nrows)>>,
       <<Key("xllcorner"), FormatFloat(g.elevation.xllcorner)>>,
       <<Key("yllcorner"), FormatFloat(g.elevation.yllcorner)>>,
       <<Key("cellsize"), FormatFloat(g.elevation.cellsize)>>,
       <<Key("NODATA_value"), FormatInt(nodata(g))>> >>
    \o FloatLines(g.data)

-----------------------------------------------------------------------------
(* hydro.py: Direction *)

\* the list of 8 neighbours of (row, col), in the order of the source
Neighbours(r, c) ==
    << Cell(r - 1, c - 1, 32), Cell(r - 1, c, 64), Cell(r - 1, c + 1, 128),
       Cell(r, c - 1, 16), Cell(r, c + 1, 1),
       Cell(r + 1, c - 1, 8), Cell(r + 1, c, 4), Cell(r + 1, c + 1, 2) >>

\* Direction._cell_elevation
cell_elevation(cell, elevation) == Index(elevation.data, cell.x, cell.y)

\* sorted(neighbours, key=self._cell_elevation): stable, ascending
RECURSIVE InsertSorted(_, _, _)
InsertSorted(n, s, elevation) ==
    IF s = <<>> THEN <<n>>
    ELSE IF cell_elevation(Head(s), elevation) < cell_elevation(n, elevation)
         THEN <<Head(s)>> \o InsertSorted(n, Tail(s), elevation)
         ELSE <<n>> \o s

RECURSIVE Sorted(_, _)
Sorted(s, elevation) ==
    IF s = <<>> THEN <<>>
    ELSE InsertSorted(Head(s), Sorted(Tail(s), elevation), elevation)

\* the for loop of _process_element: the values added until the break
RECURSIVE Ties(_, _, _)
Ties(collection, min, elevation) ==
    IF collection = <<>> THEN 0
    ELSE IF cell_elevation(Head(collection), elevation) = cell_elevation(min, elevation)
         THEN Head(collection).value + Ties(Tail(collection), min, elevation)
         ELSE 0

\* a slip: the list is not sorted, its first element taken as the lowest
process_element_unsorted(neighbours, elevation) ==
    Head(neighbours).value + Ties(Tail(neighbours), Head(neighbours), elevation)

\* a slip: only the first of the lowest neighbours counts
process_element_no_ties(neighbours, elevation) ==
    Head(Sorted(neighbours, elevation)).value

\* Direction._process_element
process_element(neighbours, elevation) ==
    LET collection == Sorted(neighbours, elevation)
        min == Head(collection)
    IN  min.value + Ties(Tail(collection), min, elevation)

\* run: some n.is_valid() of the list comprehension raises
valid_raises(r, c, elevation) ==
    \E i \in 1..8 : is_valid_raises(Neighbours(r, c)[i], elevation)

\* run: valid = [n for n in neighbours if n.is_valid()]
Valid(r, c, elevation) ==
    LET keep(n) == is_valid(n, elevation)
    IN  SelectSeq(Neighbours(r, c), keep)

\* a slip: a cell that holds no data gets no direction
cell_value_own_nodata(g, r, c) ==
    IF Index(g.elevation.data, r, c) = g.elevation.nodata_value THEN nodata(g)
    ELSE IF Valid(r, c, g.elevation) # <<>>
         THEN process_element(Valid(r, c, g.elevation), g.elevation)
         ELSE nodata(g)

\* run: the value of cell (row, col)
cell_value(g, r, c) ==
    IF Valid(r, c, g.elevation) # <<>>
    THEN process_element(Valid(r, c, g.elevation), g.elevation)
    ELSE nodata(g)

-----------------------------------------------------------------------------
(* State shared by the specifications *)

\* the number of rows that hold values: 0 for the array of shape (1, 0)
RowCount(data) == IF Size(data) = 0 THEN 0 ELSE Shape0(data)

\* the record the history keeps of one add_row call
Call(index, g, r) ==
    [row    |-> index,
     values |-> r,
     before |-> RowCount(g.data),
     branch |-> add_row_branch(g),
     raised |-> add_row_raises(g, r),
     after  |-> IF add_row_raises(g, r) THEN RowCount(g.data)
                ELSE RowCount(add_row(g, r).data)]

NoFile == [state |-> "absent", text |-> <<>>]

\* everything but pc and the input, as it is before anything has run
Blank ==
    /\ dataset = "None"
    /\ tmp = NoFile
    /\ loaded = [a |-> <<>>, ndim |-> 1]
    /\ grid = Grid(NoElevation)
    /\ row = 0
    /\ col = 0
    /\ direction_row = <<>>
    /\ output = NoFile
    /\ calls = <<>>
    /\ renders = 0
    /\ result = [kind |-> "none"]

-----------------------------------------------------------------------------
(* Direction(input).run(output) *)

Shapes == {s \in (1..MaxCells) \X (1..MaxCells) : s[1] * s[2] <= MaxCells}

Matrices == UNION {[1..s[1] -> [1..s[2] -> Elevs]] : s \in Shapes}

Raster(readable, nd, d) ==
    [readable |-> readable, ncols |-> Len(d[1]), nrows |-> Len(d),
     xllcorner |-> 0, yllcorner |-> 0, cellsize |-> 1,
     nodata_value |-> nd, data |-> d]

\* the files at `input`: every readable raster of the bounds, and a file GDAL cannot open
Rasters ==
    {Raster(TRUE, nd, d) : nd \in NoDataValues, d \in Matrices}
    \cup {Raster(FALSE, NODATA, <<<<5>>>>)}

Init ==
    /\ pc = "start"
    /\ raster \in Rasters
    /\ input_data = NoElevation
    /\ Blank

\* read: dataset = gdal.Open(path, gdal.GA_ReadOnly), None when GDAL cannot open it
Open ==
    /\ pc = "start"
    /\ dataset' = IF raster.readable THEN "Dataset" ELSE "None"
    /\ pc' = "to_ascii_grid"
    /\ UNCHANGED <<raster, tmp, loaded, input_data, grid, row, col,
                   direction_row, output, calls, renders, result>>

\* _to_ascii_grid: the temporary file is created, then CreateCopy writes the grid
\* into it, or raises on a dataset that is None
ToAsciiGrid ==
    /\ pc = "to_ascii_grid"
    /\ IF dataset = "None"
       THEN /\ tmp' = [state |-> "exists", text |-> <<>>]
            /\ pc' = "read_raised"
       ELSE /\ tmp' = [state |-> "exists", text |-> AAIGridText(raster)]
            /\ pc' = "loadtxt"
    /\ UNCHANGED <<raster, dataset, loaded, input_data, grid, row, col,
                   direction_row, output, calls, renders, result>>

\* read: data = numpy.loadtxt(ascii_file.name, skiprows=header_size); the read of
\* the file may fail (IOError), the text may be rejected (ValueError)
LoadTxt ==
    /\ pc = "loadtxt"
    /\ \E io_error \in BOOLEAN :
          IF io_error \/ loadtxt_raises(tmp.text)
          THEN /\ pc' = "read_raised"
               /\ UNCHANGED loaded
          ELSE /\ pc' = "parse_headers"
               /\ loaded' = loadtxt(tmp.text)
    /\ UNCHANGED <<raster, dataset, tmp, input_data, grid, row, col,
                   direction_row, output, calls, renders, result>>

\* read: _parse_headers, then the return.  linecache.getline gives '' for a file
\* it cannot read, and float('') raises.  At the return ascii_file goes out of
\* scope: the file is deleted when the object is finalized, at once under
\* reference counting, at a later collection otherwise.
ParseHeaders ==
    /\ pc = "parse_headers"
    /\ \E io_error \in BOOLEAN :
          LET text == IF io_error THEN <<>> ELSE tmp.text
          IN  IF parse_headers_raises(text)
              THEN /\ pc' = "read_raised"
                   /\ UNCHANGED <<input_data, tmp>>
              ELSE /\ pc' = "loaded"
                   /\ input_data' = Elevation(parse_headers(text), loaded)
                   /\ \E at_once \in BOOLEAN :
                         tmp' = IF at_once THEN [state |-> "deleted", text |-> <<>>]
                                ELSE tmp
    /\ UNCHANGED <<raster, dataset, loaded, grid, row, col,
                   direction_row, output, calls, renders, result>>

\* read is over, by return or by exception
ReadExited == pc \notin {"start", "to_ascii_grid", "loadtxt", "parse_headers"}

\* the NamedTemporaryFile is finalized after read is over: a collection, or the
\* release of the traceback that holds the frame of a raised call
Collect ==
    /\ ReadExited
    /\ tmp.state = "exists"
    /\ tmp' = [state |-> "deleted", text |-> <<>>]
    /\ UNCHANGED <<pc, raster, dataset, loaded, input_data, grid, row, col,
                   direction_row, output, calls, renders, result>>

\* run: grid = Grid(self.input_data), and the entry of the row loop
RunStart ==
    /\ pc = "loaded"
    /\ grid' = Grid(input_data)
    /\ row' = 0
    /\ col' = 0
    /\ direction_row' = <<>>
    /\ pc' = IF input_data.nrows = 0 THEN "render"
             ELSE IF input_data.ncols = 0 THEN "add_row" ELSE "cell"
    /\ UNCHANGED <<raster, dataset, tmp, loaded, input_data, output, calls,
                   renders, result>>

\* run: one pass of the column loop, for cell (row, col)
RunCell ==
    /\ pc = "cell"
    /\ IF valid_raises(row, col, input_data)
       THEN /\ pc' = "run_raised"
            /\ UNCHANGED <<direction_row, col>>
       ELSE /\ direction_row' = Append(direction_row, cell_value(grid, row, col))
            /\ col' = col + 1
            /\ pc' = IF col + 1 = input_data.ncols THEN "add_row" ELSE "cell"
    /\ UNCHANGED <<raster, dataset, tmp, loaded, input_data, grid, row, output,
                   calls, renders, result>>

\* run: grid.add_row(direction_row), and the next pass of the row loop
RunAddRow ==
    /\ pc = "add_row"
    /\ calls' = Append(calls, Call(row, grid, direction_row))
    /\ IF add_row_raises(grid, direction_row)
       THEN /\ pc' = "run_raised"
            /\ UNCHANGED <<grid, row, col, direction_row>>
       ELSE /\ grid' = add_row(grid, direction_row)
            /\ row' = row + 1
            /\ col' = 0
            /\ direction_row' = <<>>
            /\ pc' = IF row + 1 = input_data.nrows THEN "render"
                     ELSE IF input_data.ncols = 0 THEN "add_row" ELSE "cell"
    /\ UNCHANGED <<raster, dataset, tmp, loaded, input_data, output, renders, result>>

\* run: grid.render(output); open(path, 'wb') raises IOError on a path that
\* cannot be written
RunRender ==
    /\ pc = "render"
    /\ renders' = renders + 1
    /\ \E writable \in BOOLEAN :
          IF writable
          THEN /\ output' = [state |-> "written", text |-> render(grid)]
               /\ pc' = "done"
          ELSE /\ pc' = "render_raised"
               /\ UNCHANGED output
    /\ UNCHANGED <<raster, dataset, tmp, loaded, input_data, grid, row, col,
                   direction_row, calls, result>>

Next ==
    \/ Open
    \/ ToAsciiGrid
    \/ LoadTxt
    \/ ParseHeaders
    \/ Collect
    \/ RunStart
    \/ RunCell
    \/ RunAddRow
    \/ RunRender

Spec == Init /\ [][Next]_vars

-----------------------------------------------------------------------------
(* Properties of Direction(input).run(output), checked under Spec *)

\* run has a Grid: the row loop, the render, or the end of either
Running == pc \in {"cell", "add_row", "render", "done", "render_raised", "run_raised"}

\* the row loop is over: the grid holds every row run appends
GridComplete == pc \in {"render", "done", "render_raised"}

\* run is about to process its first cell
AtFirstCell == pc = "cell" /\ row = 0 /\ col = 0

\* the surface is the rows x columns matrix of the data model
Is2D(e) == e.data.ndim = 2

OutOfBounds(e, x, y) == x < 0 \/ x >= e.nrows \/ y < 0 \/ y >= e.ncols

\* the stored elevation at an in-bounds (x, y)
At(e, x, y) == e.data.a[x + 1][y + 1]

\* coordinates around every surface of the bounds, negative and too large included
Coords == (0 - 2)..(MaxCells + 1)

\* the cells of the output grid written so far, as (row, col) pairs
Written ==
    {rc \in (0..(MaxCells - 1)) \X (0..(MaxCells - 1)) :
        /\ rc[1] < RowCount(grid.data)
        /\ rc[2] < Len(grid.data[rc[1] + 1])}

GridAt(r, c) == grid.data[r + 1][c + 1]

Codes == {1, 2, 4, 8, 16, 32, 64, 128}

\* the direction codes of the neighbours of (r, c) that are in bounds and hold data
ValidCodes(e, r, c) ==
    {n.value : n \in {Neighbours(r, c)[i] : i \in 1..8} \cap
                     {m \in {Neighbours(r, c)[i] : i \in 1..8} :
                         ~OutOfBounds(e, m.x, m.y) /\ At(e, m.x, m.y) # e.nodata_value}}

\* the lowest elevation among the neighbours of (r, c) that are in bounds and hold data
LowestCodes(e, r, c) ==
    LET ok == {m \in {Neighbours(r, c)[i] : i \in 1..8} :
                  ~OutOfBounds(e, m.x, m.y) /\ At(e, m.x, m.y) # e.nodata_value}
    IN  {m.value : m \in {n \in ok : \A o \in ok : At(e, n.x, n.y) <= At(e, o.x, o.y)}}

\* the codes whose bit is set in v
Bits(v) == {c \in Codes : (v \div c) % 2 = 1}

RECURSIVE SumOf(_)
SumOf(S) == IF S = {} THEN 0
            ELSE LET c == CHOOSE x \in S : TRUE IN c + SumOf(S \ {c})

NoValidNeighbour(e, r, c) ==
    \A i \in 1..8 :
        LET n == Neighbours(r, c)[i]
        IN  OutOfBounds(e, n.x, n.y) \/ At(e, n.x, n.y) = e.nodata_value

\* C4: a cell of the output whose 8 neighbour positions are all out of bounds or
\* hold the input's nodata_value is written as -9999, whatever that nodata_value is
C4_NoValidNeighbour ==
    GridComplete =>
        \A rc \in Written :
            NoValidNeighbour(input_data, rc[1], rc[2]) => GridAt(rc[1], rc[2]) = 0 - 9999

\* C4 witness: a finished run over a surface whose nodata_value is not -9999,
\* with a cell all of whose in-bounds neighbours hold that value
C4_Witness ==
    /\ pc = "done"
    /\ input_data.nodata_value # 0 - 9999
    /\ input_data.nrows > 1
    /\ \E rc \in Written :
          /\ NoValidNeighbour(input_data, rc[1], rc[2])
          /\ GridAt(rc[1], rc[2]) = 0 - 9999

\* the 3x3 surface of the concrete scenario
ScenarioRaster ==
    Raster(TRUE, 0 - 9999, << <<10, 10, 10>>, <<10, 5, 10>>, <<10, 10, 10>> >>)

ScenarioDirections == << <<2, 4, 8>>, <<1, 255, 16>>, <<128, 64, 32>> >>

\* C5: the run over the scenario's surface produces 255 at the centre and at each
\* border cell the code that points at the centre, in the grid and in the file
C5_Scenario ==
    (raster = ScenarioRaster /\ pc \in {"render", "done", "render_raised"}) =>
        /\ grid.data = ScenarioDirections
        /\ pc = "done" => /\ ~loadtxt_raises(output.text)
                          /\ Matrix(output.text) = ScenarioDirections

\* C5 witness: the run over the scenario's surface has written its output
C5_Witness ==
    /\ raster = ScenarioRaster
    /\ pc = "done"
    /\ output.state = "written"

\* C8: the grid starts empty; add_row is called once per elevation row, in the
\* order 0..nrows-1; after the k-th call the grid holds k rows of ncols values;
\* render is called once, after all nrows rows; a run that failed before that
\* has not opened or written the output
C8_Lifecycle ==
    Running =>
        /\ calls = <<>> => Size(grid.data) = 0
        /\ Len(calls) <= input_data.nrows
        /\ \A k \in 1..Len(calls) :
              /\ calls[k].row = k - 1
              /\ ~calls[k].raised
              /\ calls[k].before = k - 1
              /\ calls[k].after = k
              /\ Len(calls[k].values) = input_data.ncols
        /\ RowCount(grid.data) = Len(calls)
        /\ calls # <<>> =>
              \A i \in 1..Len(grid.data) : Len(grid.data[i]) = input_data.ncols
        /\ renders <= 1
        /\ renders = 1 => Len(calls) = input_data.nrows
        /\ renders = 1 <=> pc \in {"done", "render_raised"}
        /\ output.state = "written" <=> pc = "done"
        /\ pc = "run_raised" => (renders = 0 /\ output = NoFile)

\* C8 witness: a run over a surface of several rows has rendered its grid
C8_Witness ==
    /\ pc = "done"
    /\ input_data.nrows >= 3
    /\ Len(calls) = input_data.nrows
    /\ renders = 1

\* C9: every value placed in the output is -9999 or a number in 1..255 whose
\* set bits are codes of valid neighbours; it is never 0, and add_row takes the
\* row-appending branch on every call after the first
C9_Values ==
    Running =>
        /\ GridComplete => \A rc \in Written :
              \/ GridAt(rc[1], rc[2]) = 0 - 9999
              \/ /\ GridAt(rc[1], rc[2]) \in 1..255
                 /\ Bits(GridAt(rc[1], rc[2])) \subseteq ValidCodes(input_data, rc[1], rc[2])
                 /\ SumOf(Bits(GridAt(rc[1], rc[2]))) = GridAt(rc[1], rc[2])
        /\ \A j \in 1..Len(direction_row) :
              /\ direction_row[j] # 0
              /\ direction_row[j] = 0 - 9999 \/ direction_row[j] \in 1..255
        /\ \A k \in 1..Len(calls) :
              /\ \E j \in 1..Len(calls[k].values) : calls[k].values[j] # 0
              /\ k > 1 => calls[k].branch = "axis0"

\* C9 witness: a finished run whose grid holds a sentinel and a direction, built
\* by more than one add_row call
C9_Witness ==
    /\ pc = "done"
    /\ Len(calls) > 1
    /\ calls[2].branch = "axis0"
    /\ \E rc \in Written : GridAt(rc[1], rc[2]) = 0 - 9999
    /\ \E rc \in Written : GridAt(rc[1], rc[2]) \in 1..255

\* the surface with the value at (r, c) replaced by v
WithValueAt(e, r, c, v) == [e EXCEPT !.data.a[r + 1][c + 1] = v]

\* C10: the value written at (r, c) is the one the run computes over any surface
\* that differs only at (r, c); a cell that holds the nodata_value, or lies below
\* all its neighbours, still gets the codes of its lowest valid neighbours
C10_OwnValueIgnored ==
    GridComplete =>
        \A rc \in Written :
            /\ \A v \in Elevs \cup NoDataValues \cup {0} :
                  GridAt(rc[1], rc[2])
                     = cell_value(Grid(WithValueAt(input_data, rc[1], rc[2], v)),
                                  rc[1], rc[2])
            /\ ValidCodes(input_data, rc[1], rc[2]) # {} =>
                  GridAt(rc[1], rc[2]) = SumOf(LowestCodes(input_data, rc[1], rc[2]))

\* C10 witness: a finished run with a written cell that holds the nodata_value
\* and has the direction of its lowest valid neighbours, not the sentinel
C10_Witness ==
    /\ pc = "done"
    /\ \E rc \in Written :
          /\ At(input_data, rc[1], rc[2]) = input_data.nodata_value
          /\ GridAt(rc[1], rc[2]) \in 1..255
          /\ GridAt(rc[1], rc[2]) = SumOf(LowestCodes(input_data, rc[1], rc[2]))

\* C6: on every exit path of elevation.read the temporary file has been removed
\* by the time the call has returned or raised
C6_TempFileRemoved == ReadExited => tmp.state # "exists"

-----------------------------------------------------------------------------
(* Direction._process_element over every list of valid neighbours *)

\* the positions of the 8 neighbours of the centre (1, 1) of a 3x3 surface, in
\* the order of Neighbours
Around == << <<1, 1>>, <<1, 2>>, <<1, 3>>, <<2, 1>>, <<2, 3>>, <<3, 1>>, <<3, 2>>, <<3, 3>> >>

\* the 3x3 surface whose i-th neighbour of the centre has elevation f[i]; the
\* nodata_value is 0, so f[i] = 0 leaves neighbour i out of the valid list
ResolveSurface(f) ==
    Elevation(<<3, 3, 0, 0, 1, 0>>,
              [ndim |-> 2,
               a |-> [i \in 1..3 |-> [j \in 1..3 |->
                        IF <<i, j>> = <<2, 2>> THEN 1
                        ELSE f[CHOOSE k \in 1..8 : Around[k] = <<i, j>>]]]])

ResolveInit ==
    /\ pc = "resolve"
    /\ raster = Raster(FALSE, NODATA, <<<<5>>>>)
    /\ input_data \in {ResolveSurface(f) : f \in [1..8 -> 0..MaxLevel]}
    /\ Blank

\* valid = [n for n in neighbours if n.is_valid()]; self._process_element(valid)
Resolve ==
    /\ pc = "resolve"
    /\ Valid(1, 1, input_data) # <<>>
    /\ result' = [kind |-> "resolve",
                  candidates |-> Valid(1, 1, input_data),
                  value |-> process_element(Valid(1, 1, input_data), input_data)]
    /\ pc' = "resolved"
    /\ UNCHANGED <<raster, dataset, tmp, loaded, input_data, grid, row, col,
                   direction_row, output, calls, renders>>

ResolveNext == Resolve

SpecResolve == ResolveInit /\ [][ResolveNext]_vars

\* the elevation of a candidate of the last call
ElevOf(n) == At(input_data, n.x, n.y)

\* the candidates of the last call
Candidates == {result.candidates[i] : i \in 1..Len(result.candidates)}

\* those of lowest elevation among the candidates C
LowestOf(C) == {n \in C : \A m \in C : ElevOf(n) <= ElevOf(m)}

\* C1: _process_element returns the sum of the codes of exactly the candidates
\* whose elevation is the minimum among the candidates: a+b when two candidates
\* with codes a and b tie for it, the code of the lowest when all are distinct
C1_Resolve ==
    pc = "resolved" =>
        LET C == Candidates
            L == LowestOf(C)
            levels == {ElevOf(n) : n \in C}
        IN  /\ result.value = SumOf({n.value : n \in L})
            /\ Cardinality(L) = 2 =>
                  \E n \in L : \E m \in L : n # m /\ result.value = n.value + m.value
            /\ Cardinality(levels) = Cardinality(C) =>
                  \E n \in L : L = {n} /\ result.value = n.value

\* C1 witness: a call in which exactly two of at least three candidates tie for
\* the minimum, and neither comes first in the list
C1_Witness ==
    /\ pc = "resolved"
    /\ Cardinality(Candidates) >= 3
    /\ Cardinality(LowestOf(Candidates)) = 2
    /\ result.candidates[1] \notin LowestOf(Candidates)
    /\ result.value = SumOf({n.value : n \in LowestOf(Candidates)})

-----------------------------------------------------------------------------
(* Grid: add_row calls with any rows, render, and the text parsed back *)

\* the values of the rows passed to add_row
RowValues == {0, 64}

Rows == UNION {[1..w -> RowValues] : w \in 1..MaxWidth}

\* the source surfaces the grids are made over: their georeferencing fields
Sources ==
    {Elevation(<<nc, MaxCalls, x, 7, 30, 10>>, [a |-> <<>>, ndim |-> 1]) :
        nc \in {1, MaxWidth}, x \in {0, 0 - 12}}

GridInit ==
    /\ pc = "grid"
    /\ raster = Raster(FALSE, NODATA, <<<<5>>>>)
    /\ input_data \in Sources
    /\ dataset = "None"
    /\ tmp = NoFile
    /\ loaded = [a |-> <<>>, ndim |-> 1]
    /\ grid = Grid(input_data)
    /\ row = 0
    /\ col = 0
    /\ direction_row = <<>>
    /\ output = NoFile
    /\ calls = <<>>
    /\ renders = 0
    /\ result = [kind |-> "none"]

\* grid.add_row(r); a raised ValueError leaves the grid as it was
GridAddRow ==
    /\ pc = "grid"
    /\ Len(calls) < MaxCalls
    /\ \E r \in Rows :
          /\ calls' = Append(calls, Call(Len(calls), grid, r))
          /\ grid' = IF add_row_raises(grid, r) THEN grid ELSE add_row(grid, r)
    /\ UNCHANGED <<pc, raster, dataset, tmp, loaded, input_data, row, col,
                   direction_row, output, renders, result>>

\* grid.render(path)
GridRender ==
    /\ pc = "grid"
    /\ calls # <<>>
    /\ output' = [state |-> "written", text |-> render(grid)]
    /\ renders' = renders + 1
    /\ pc' = "rendered"
    /\ UNCHANGED <<raster, dataset, tmp, loaded, input_data, grid, row, col,
                   direction_row, calls, result>>

\* the written text read back: _parse_headers on its six header lines,
\* numpy.loadtxt(skiprows=header_size) on the rest
GridParse ==
    /\ pc = "rendered"
    /\ result' =
          IF parse_headers_raises(output.text) \/ loadtxt_raises(output.text)
          THEN [kind |-> "parsed", raised |-> TRUE, headers |-> <<>>, matrix |-> <<>>]
          ELSE [kind |-> "parsed", raised |-> FALSE,
                headers |-> parse_headers(output.text),
                matrix |-> loadtxt(output.text).a]
    /\ pc' = "parsed"
    /\ UNCHANGED <<raster, dataset, tmp, loaded, input_data, grid, row, col,
                   direction_row, output, calls, renders>>

GridNext ==
    \/ GridAddRow
    \/ GridRender
    \/ GridParse

SpecGrid == GridInit /\ [][GridNext]_vars

\* C3: a call whose row length differs from the width the first call established
\* raises and leaves the row count as it was; a call with the established width
\* adds exactly one row
C3_ShapeChecked ==
    pc \in {"grid", "rendered", "parsed"} =>
        \A k \in 1..Len(calls) :
            IF Len(calls[k].values) # Len(calls[1].values)
            THEN calls[k].raised /\ calls[k].after = calls[k].before
            ELSE ~calls[k].raised /\ calls[k].after = calls[k].before + 1

\* C7: a grid built by add_row calls of equal width, rendered and parsed back,
\* yields the source's ncols, nrows, xllcorner, yllcorner and cellsize and the
\* rows appended, in order
C7_RoundTrip ==
    (/\ pc = "parsed"
     /\ \A k \in 1..Len(calls) : Len(calls[k].values) = Len(calls[1].values))
    => /\ ~result.raised
       /\ result.headers[1] = input_data.ncols
       /\ result.headers[2] = input_data.nrows
       /\ result.headers[3] = input_data.xllcorner
       /\ result.headers[4] = input_data.yllcorner
       /\ result.headers[5] = input_data.cellsize
       /\ result.matrix = [k \in 1..Len(calls) |-> calls[k].values]

=============================================================================
